---------------------------- MODULE Spec2Model ----------------------------
(***************************************************************************)
(* Model of the llmops-class notebooks: the YouTube summarizer pipeline,   *)
(* the YouTube RAG ingestion / question answering cells, the text          *)
(* splitter the RAG notebook configures, the monitoring notebook           *)
(* (PerformanceMonitor, process_video) and the two evaluation notebooks    *)
(* (evaluate_rag_system, evaluate_model_with_mlflow).                      *)
(*                                                                         *)
(* Text is a sequence of one-character strings, so that splitting,         *)
(* stripping and joining are computed and not assumed.                     *)
(***************************************************************************)
EXTENDS Integers, Sequences, FiniteSets, TLC

VARIABLES
    \* ---- text splitter (RAG notebook, text_splitter.split_text) ----
    c_pc,            \* "ready" | "done"
    c_text,          \* the document given to split_text
    c_size,          \* chunk_size of the splitter
    c_overlap,       \* chunk_overlap of the splitter
    c_chunks,        \* the list split_text returned
    \* ---- summarizer pipeline (summarize_youtube_video / __call__) ----
    s_pc,            \* "idle" | "extract" | "transcript" | "summarize" | "done"
    url,             \* the URL of the request
    video_id,        \* value of extract_video_id(url)
    transcript,      \* value of get_transcript(video_id)
    summary,         \* value of summarize_text(transcript)
    result,          \* what the entry point returned (or raised)
    fetch_calls,     \* calls of YouTubeTranscriptApi.get_transcript in this request
    gen_calls,       \* calls of client.chat.completions.create in this request
    gen_timeouts,    \* how many of those calls timed out
    failed,          \* which upstream capability raised in this request ("none" if none)
    \* ---- RAG notebook ----
    r_pc,            \* "idle" | "processed" | "indexed" | "ingest_failed"
    youtube_urls,    \* the list given to process_videos
    documents,       \* list of {video_id, url, content}
    chunks,          \* list of chunk texts (ingestion cell)
    metadatas,       \* list of {video_id, url, chunk}
    vectorstore,     \* entries of the persisted Chroma collection, in insertion order
    next_id,         \* next fresh entry id of the collection
    budget,          \* the context budget the caller configured for the last question
    source_documents,\* result['source_documents'] of the last question
    context,         \* the context the chain handed to the model for the last question
    asked,           \* number of questions asked so far
    answer,          \* result['result'] of the last question (or what qa_chain raised)
    \* ---- monitoring notebook (process_video, PerformanceMonitor) ----
    m_pc,            \* "idle" | "summarize" | "resources" | "rouge" | "log" | "done"
    reference_summary, \* the reference_summary argument of process_video
    m_summary,       \* the summary the summarizer produced in this request
    latency,         \* the latency measure_latency measured, in ms
    resource_usage,  \* value of monitor.measure_resource_usage()
    rouge_scores,    \* value of calculate_rouge_scores, or {}
    metrics_history, \* monitor.metrics_history
    mlflow_runs,     \* the metrics of the runs log_metrics wrote to MLflow
    m_result,        \* what process_video returned (or raised)
    m_failed,        \* which part of the monitoring raised in this request ("none" if none)
    drift_flags,     \* the drift flags the monitor has raised
    requests,        \* number of process_video calls so far
    \* ---- evaluation notebooks (evaluate_rag_system, evaluate_model_with_mlflow) ----
    harness,         \* which of the two runs: "rag" | "summarizer"
    e_pc,            \* "ready" | "loop" | "done"
    qa_samples,      \* the list given to the function (qa_samples, test_data)
    e_i,             \* the loop index i (0-based, as enumerate gives it)
    all_metrics,     \* the list of per-sample metrics
    logged,          \* what mlflow.log_metric was called with, in call order
    avg_metrics,     \* metrics_df.mean(numeric_only=True)
    report,          \* the rows of evaluation_results.csv (None while not written)
    e_result         \* what the function returned (or raised)

chunkVars == <<c_pc, c_text, c_size, c_overlap, c_chunks>>
summVars  == <<s_pc, url, video_id, transcript, summary, result,
               fetch_calls, gen_calls, gen_timeouts, failed>>
ragVars   == <<r_pc, youtube_urls, documents, chunks, metadatas, vectorstore,
               next_id, budget, source_documents, context, asked, answer>>
monVars   == <<m_pc, reference_summary, m_summary, latency, resource_usage,
               rouge_scores, metrics_history, mlflow_runs, m_result, m_failed,
               drift_flags, requests>>
evalVars  == <<harness, e_pc, qa_samples, e_i, all_metrics, logged, avg_metrics,
               report, e_result>>
vars      == <<chunkVars, summVars, ragVars, monVars, evalVars>>

---------------------------------------------------------------------------
(* Bounds of the model.                                                    *)

\* longest generated document, in characters
MaxLen == 5
\* largest chunk_size the splitter is configured with in the splitter specification
MaxChunkSize == 4
\* longest list of URLs given to process_videos
MaxUrls == 2
\* most entries the collection in ./chroma_db grows to
MaxEntries == 4
\* how many questions are asked
MaxQuestions == 1
\* largest context budget a caller configures, in characters
MaxBudget == 2
\* chunk_size and chunk_overlap of the RAG notebook's splitter, scaled down
\* from 1000 and 200 characters to the size of the generated transcripts
RagChunkSize == 3
RagChunkOverlap == 1

---------------------------------------------------------------------------
(* Python values: a string, None, or a raised exception.                   *)

(* A string value is a sequence of pieces of text (single characters where  *)
(* the code looks inside the string); the empty string is <<>>.            *)

PyStr(s)  == [type |-> "str", val |-> s]
PyNone    == [type |-> "NoneType", val |-> <<>>]
Raised(e) == [type |-> "raise", val |-> <<e>>]

\* Python truthiness of a str-or-None value (`if not x`)
Truthy(v) == v.type = "str" /\ v.val # <<>>

---------------------------------------------------------------------------
(* Text helpers.                                                           *)

NL == "\n"
Whitespace == {" ", NL}

RECURSIVE LStrip(_)
LStrip(s) ==
    IF s = <<>> THEN s
    ELSE IF Head(s) \in Whitespace THEN LStrip(Tail(s)) ELSE s

RECURSIVE RStrip(_)
RStrip(s) ==
    IF s = <<>> THEN s
    ELSE IF s[Len(s)] \in Whitespace THEN RStrip(SubSeq(s, 1, Len(s) - 1)) ELSE s

\* str.strip()
Strip(s) == RStrip(LStrip(s))

StartsWith(s, p) == Len(p) <= Len(s) /\ SubSeq(s, 1, Len(p)) = p

EndsWith(s, p) == Len(p) <= Len(s) /\ SubSeq(s, Len(s) - Len(p) + 1, Len(s)) = p

\* re.search(re.escape(sep), text) for a non-empty sep
Contains(text, sep) ==
    \E i \in 1..Len(text) : StartsWith(SubSeq(text, i, Len(text)), sep)

\* separator.join(docs)
RECURSIVE Join(_, _)
Join(docs, sep) ==
    IF docs = <<>> THEN <<>>
    ELSE IF Len(docs) = 1 THEN docs[1]
    ELSE docs[1] \o sep \o Join(Tail(docs), sep)

\* the pieces of text between the leftmost non-overlapping matches of sep
RECURSIVE Pieces(_, _, _)
Pieces(text, sep, cur) ==
    IF text = <<>> THEN <<cur>>
    ELSE IF StartsWith(text, sep)
         THEN <<cur>> \o Pieces(SubSeq(text, Len(sep) + 1, Len(text)), sep, <<>>)
         ELSE Pieces(Tail(text), sep, Append(cur, Head(text)))

NonEmpty(s) == s # <<>>

---------------------------------------------------------------------------
(* The text splitter: RecursiveCharacterTextSplitter(chunk_size,           *)
(* chunk_overlap, length_function=len) with its default separators, and    *)
(* its split_text method.                                                  *)

\* a length function that counts words instead of characters
RECURSIVE WordCount(_, _)
WordCount(s, inWord) ==
    IF s = <<>> THEN 0
    ELSE IF Head(s) \in Whitespace THEN WordCount(Tail(s), FALSE)
    ELSE (IF inWord THEN 0 ELSE 1) + WordCount(Tail(s), TRUE)

length_function_words(s) == WordCount(s, FALSE)

\* length_function=len
length_function(s) == Len(s)

\* the default separators of the splitter, tried in this order
Separators == << <<NL, NL>>, <<NL>>, <<" ">>, <<>> >>

\* _split_text_with_regex(text, separator, keep_separator=True): each
\* separator stays at the start of the piece that follows it; empty pieces
\* are dropped.  The empty separator splits into characters.
split_text_with_regex(text, sep) ==
    IF sep = <<>>
    THEN [i \in 1..Len(text) |-> <<text[i]>>]
    ELSE LET p == Pieces(text, sep, <<>>)
             splits == <<p[1]>> \o [i \in 1..(Len(p) - 1) |-> sep \o p[i + 1]]
         IN  SelectSeq(splits, NonEmpty)

\* _join_docs: join, strip, and None (here: no chunk) when nothing is left
join_docs(docs, sep) ==
    LET text == Strip(Join(docs, sep))
    IN  IF text = <<>> THEN <<>> ELSE <<text>>

\* the `while` loop of _merge_splits that drops leading splits of the
\* current chunk until what is kept fits the overlap and the next split fits
RECURSIVE PopSplits(_, _, _, _, _, _)
PopSplits(cur, total, len, seplen, size, overlap) ==
    IF total > overlap
       \/ (total + len + (IF Len(cur) > 0 THEN seplen ELSE 0) > size /\ total > 0)
    THEN PopSplits(Tail(cur),
                   total - (length_function(cur[1])
                            + (IF Len(cur) > 1 THEN seplen ELSE 0)),
                   len, seplen, size, overlap)
    ELSE [cur |-> cur, total |-> total]

\* _merge_splits(splits, separator): the loop over the splits, from split i
RECURSIVE MergeFrom(_, _, _, _, _, _, _, _)
MergeFrom(splits, i, sep, docs, cur, total, size, overlap) ==
    IF i > Len(splits) THEN docs \o join_docs(cur, sep)
    ELSE
      LET d      == splits[i]
          len    == length_function(d)
          seplen == length_function(sep)
          over   == total + len + (IF Len(cur) > 0 THEN seplen ELSE 0) > size
          emit   == over /\ Len(cur) > 0
          docs2  == IF emit THEN docs \o join_docs(cur, sep) ELSE docs
          kept   == IF emit THEN PopSplits(cur, total, len, seplen, size, overlap)
                    ELSE [cur |-> cur, total |-> total]
          cur2   == Append(kept.cur, d)
          total2 == kept.total + len + (IF Len(cur2) > 1 THEN seplen ELSE 0)
      IN  MergeFrom(splits, i + 1, sep, docs2, cur2, total2, size, overlap)

merge_splits(splits, sep, size, overlap) ==
    MergeFrom(splits, 1, sep, <<>>, <<>>, 0, size, overlap)

\* index of the separator _split_text picks: the first one that is empty or
\* occurs in the text
RECURSIVE PickSeparator(_, _, _)
PickSeparator(text, seps, i) ==
    IF i >= Len(seps) THEN Len(seps)
    ELSE IF seps[i] = <<>> \/ Contains(text, seps[i]) THEN i
    ELSE PickSeparator(text, seps, i + 1)

\* _split_text(text, separators) and its loop over the splits
RECURSIVE split_text_rec(_, _, _, _)
RECURSIVE SplitLoop(_, _, _, _, _, _, _)
SplitLoop(splits, i, good, final, newseps, size, overlap) ==
    IF i > Len(splits)
    THEN IF good # <<>> THEN final \o merge_splits(good, <<>>, size, overlap)
         ELSE final
    ELSE
      LET s == splits[i] IN
      IF length_function(s) < size
      THEN SplitLoop(splits, i + 1, Append(good, s), final, newseps, size, overlap)
      ELSE
        LET final2 == IF good # <<>>
                      THEN final \o merge_splits(good, <<>>, size, overlap)
                      ELSE final
            final3 == IF newseps = <<>> THEN Append(final2, s)
                      ELSE final2 \o split_text_rec(s, newseps, size, overlap)
        IN  SplitLoop(splits, i + 1, <<>>, final3, newseps, size, overlap)

split_text_rec(text, seps, size, overlap) ==
    LET k       == PickSeparator(text, seps, 1)
        sep     == seps[k]
        newseps == IF sep = <<>> THEN <<>> ELSE SubSeq(seps, k + 1, Len(seps))
        splits  == split_text_with_regex(text, sep)
    IN  SplitLoop(splits, 1, <<>>, <<>>, newseps, size, overlap)

\* text_splitter.split_text(text)
split_text(text, size, overlap) == split_text_rec(text, Separators, size, overlap)

\* the document of the chunking scenario, "A B C D E F G H"
ScenarioDoc == <<"A", " ", "B", " ", "C", " ", "D", " ", "E", " ", "F", " ", "G", " ", "H">>

---------------------------------------------------------------------------
(* Initial values of the three parts of the model.                         *)

ChunkIdle ==
    /\ c_pc = "idle" /\ c_text = <<>> /\ c_size = 1 /\ c_overlap = 0
    /\ c_chunks = <<>>

NoUrl == [hostname |-> "", path |-> <<>>, query |-> <<>>]

SummIdle ==
    /\ s_pc = "idle" /\ url = NoUrl /\ video_id = PyNone /\ transcript = PyNone
    /\ summary = PyNone /\ result = PyNone
    /\ fetch_calls = 0 /\ gen_calls = 0 /\ gen_timeouts = 0 /\ failed = "none"

RagIdle ==
    /\ r_pc = "idle" /\ youtube_urls = <<>> /\ documents = <<>>
    /\ chunks = <<>> /\ metadatas = <<>> /\ vectorstore = <<>> /\ next_id = 1
    /\ budget = 1 /\ source_documents = <<>> /\ context = <<>> /\ asked = 0
    /\ answer = PyNone

\* a dict with no key
EmptyDict == [x \in {} |-> 0]

MonIdle ==
    /\ m_pc = "idle" /\ reference_summary = PyNone /\ m_summary = PyNone
    /\ latency = 0 /\ resource_usage = EmptyDict /\ rouge_scores = EmptyDict
    /\ metrics_history = <<>> /\ mlflow_runs = <<>> /\ m_result = PyNone
    /\ m_failed = "none" /\ drift_flags = {} /\ requests = 0

EvalIdle ==
    /\ harness = "none"
    /\ e_pc = "idle" /\ qa_samples = <<>> /\ e_i = 0 /\ all_metrics = <<>>
    /\ logged = <<>> /\ avg_metrics = EmptyDict /\ report = PyNone
    /\ e_result = PyNone

---------------------------------------------------------------------------
(* Specification of the splitter alone: a document and a configuration     *)
(* are drawn, then split_text runs.                                        *)

Alphabet == {"a", " ", NL}

Texts == UNION {[1..n -> Alphabet] : n \in 0..MaxLen}

InitChunker ==
    /\ c_pc = "ready"
    /\ c_text \in Texts \cup {ScenarioDoc}
    /\ c_size \in 1..MaxChunkSize
    \* the splitter's constructor rejects chunk_overlap > chunk_size
    /\ c_overlap \in 0..c_size
    /\ c_chunks = <<>>
    /\ SummIdle /\ RagIdle /\ MonIdle /\ EvalIdle

\* doc_chunks = text_splitter.split_text(doc['content'])
SplitText ==
    /\ c_pc = "ready"
    /\ c_chunks' = split_text(c_text, c_size, c_overlap)
    /\ c_pc' = "done"
    /\ UNCHANGED <<c_text, c_size, c_overlap, summVars, ragVars, monVars, evalVars>>

NextChunker == SplitText

SpecChunker == InitChunker /\ [][NextChunker]_vars

---------------------------------------------------------------------------
(* Claims about the splitter.                                              *)

ScenarioChunks ==
    << <<"A", " ", "B", " ", "C">>, <<"C", " ", "D", " ", "E">>,
       <<"E", " ", "F", " ", "G">>, <<"G", " ", "H">> >>

\* C5: chunking "A B C D E F G H" with max_chunk_size 3 and overlap 1 yields
\* exactly the chunks "A B C", "C D E", "E F G", "G H", in that order.
C5_ScenarioChunking ==
    (c_pc = "done" /\ c_text = ScenarioDoc /\ c_size = 3 /\ c_overlap = 1)
        => c_chunks = ScenarioChunks

\* Whether the chunks cs, each with at most `overlap` leading units that
\* repeat the end of its predecessor removed, concatenate to exactly `rest`.
RECURSIVE Rebuilds(_, _, _, _)
Rebuilds(cs, prev, rest, overlap) ==
    IF cs = <<>> THEN rest = <<>>
    ELSE \E n \in 0..overlap :
            /\ n <= Len(cs[1])
            /\ EndsWith(prev, SubSeq(cs[1], 1, n))
            /\ LET fresh == SubSeq(cs[1], n + 1, Len(cs[1]))
               IN  /\ StartsWith(rest, fresh)
                   /\ Rebuilds(Tail(cs), cs[1],
                               SubSeq(rest, Len(fresh) + 1, Len(rest)), overlap)

\* C6: for every non-empty document and every configuration with
\* overlap < max_chunk_size, the chunks in order, each without the overlap
\* it shares with its predecessor, concatenate to the original text.
C6_RoundTrip ==
    (c_pc = "done" /\ c_text # <<>> /\ c_overlap < c_size)
        => Rebuilds(c_chunks, <<>>, c_text, c_overlap)

\* C7: no chunk is longer than chunk_size, whatever the document, also when
\* it has no paragraph, sentence or whitespace boundary within the limit.
NoBoundary(text) == \A i \in 1..Len(text) : text[i] \notin Whitespace

C7_ChunkWithinSize ==
    c_pc = "done" =>
        /\ \A i \in 1..Len(c_chunks) : Len(c_chunks[i]) <= c_size
        \* hard cut: without a boundary every chunk but the last is full
        /\ NoBoundary(c_text) =>
              \A i \in 1..(Len(c_chunks) - 1) : Len(c_chunks[i]) = c_size

\* C7 witness: a document without any boundary, longer than the limit, was
\* hard-cut into several chunks.
C7_Witness ==
    /\ c_pc = "done"
    /\ NoBoundary(c_text)
    /\ Len(c_text) > c_size
    /\ Len(c_chunks) >= 2

---------------------------------------------------------------------------
(* The summarizer pipeline: summarize_youtube_video(url), the same code as *)
(* YouTubeSummaryChain.__call__.                                           *)

(* A URL as urlparse sees it: hostname, path (its first piece is the       *)
(* leading "/" when there is one) and the values the query gives for v.    *)
Hostnames == {"youtu.be", "www.youtube.com", "youtube.com", "example.com"}
Paths     == { <<>>, <<"/">>, <<"/", "watch">>, <<"/", "vid1">> }
Queries   == { <<>>, <<"">>, <<"vid2">> }
Urls      == [hostname : Hostnames, path : Paths, query : Queries]

\* parse_qs(parsed_url.query)['v'][0]: blank values are dropped by parse_qs,
\* a missing key raises KeyError
parse_qs_v(query) ==
    LET vals == SelectSeq(query, LAMBDA x : x # "")
    IN  IF vals = <<>> THEN Raised("KeyError") ELSE PyStr(<<vals[1]>>)

\* extract_video_id(url) of the summarizer
extract_video_id(u) ==
    IF u.hostname = "youtu.be"
    THEN PyStr(SubSeq(u.path, 2, Len(u.path)))
    ELSE IF u.hostname \in {"www.youtube.com", "youtube.com"} /\ u.path = <<"/", "watch">>
         THEN parse_qs_v(u.query)
         ELSE PyNone

\* what YouTubeTranscriptApi.get_transcript can do: raise, or return segments
\* whose joined text is one of these
TranscriptTexts == { <<>>, <<"a", " ", "a">> }
FetchOutcomes == {"ok", "error"}

\* what client.chat.completions.create can do: raise one of the errors of
\* the generation capability, or return a completion with one of these texts
GenErrors == {"Timeout", "RateLimited", "InvalidRequest"}
GenTexts  == { <<>>, <<"summary">> }

MsgInvalidUrl   == PyStr(<<"Invalid YouTube URL">>)
MsgNoTranscript == PyStr(<<"Could not retrieve transcript">>)
MsgNoSummary    == PyStr(<<"Could not generate summary">>)

InitSummarizer == SummIdle /\ ChunkIdle /\ RagIdle /\ MonIdle /\ EvalIdle

\* summarize_youtube_video(url) is called
SummCall ==
    /\ s_pc = "idle"
    /\ \E u \in Urls : url' = u
    /\ s_pc' = "extract"
    /\ video_id' = PyNone /\ transcript' = PyNone /\ summary' = PyNone
    /\ result' = PyNone
    /\ fetch_calls' = 0 /\ gen_calls' = 0 /\ gen_timeouts' = 0 /\ failed' = "none"
    /\ UNCHANGED <<chunkVars, ragVars, monVars, evalVars>>

\* video_id = extract_video_id(url); if not video_id: return "Invalid YouTube URL"
ExtractVideoId ==
    /\ s_pc = "extract"
    /\ LET v == extract_video_id(url) IN
         /\ video_id' = v
         /\ IF v.type = "raise"
            THEN result' = v /\ s_pc' = "done"
            ELSE IF ~Truthy(v)
                 THEN result' = MsgInvalidUrl /\ s_pc' = "done"
                 ELSE result' = result /\ s_pc' = "transcript"
    /\ UNCHANGED <<url, transcript, summary, fetch_calls, gen_calls, gen_timeouts,
                   failed, chunkVars, ragVars, monVars, evalVars>>

\* get_transcript(video_id): the API call in a try block, None on any exception
get_transcript(outcome, text) ==
    IF outcome = "ok" THEN PyStr(text) ELSE PyNone

\* transcript = get_transcript(video_id);
\* if not transcript: return "Could not retrieve transcript"
GetTranscript ==
    /\ s_pc = "transcript"
    /\ \E outcome \in FetchOutcomes, text \in TranscriptTexts :
         LET t == get_transcript(outcome, text) IN
           /\ transcript' = t
           /\ failed' = IF outcome = "error" THEN "transcript" ELSE failed
           /\ IF ~Truthy(t)
              THEN result' = MsgNoTranscript /\ s_pc' = "done"
              ELSE result' = result /\ s_pc' = "summarize"
    /\ fetch_calls' = fetch_calls + 1
    /\ UNCHANGED <<url, video_id, summary, gen_calls, gen_timeouts,
                   chunkVars, ragVars, monVars, evalVars>>

\* summarize_text(text): one create() call in a try block, None on any exception
summarize_text(outcome, text) ==
    IF outcome = "ok" THEN PyStr(text) ELSE PyNone

\* how often summarize_text calls the generation capability
GenAttempts == 1

\* summary = summarize_text(transcript);
\* if not summary: return "Could not generate summary"; return summary
SummarizeText ==
    /\ s_pc = "summarize"
    /\ \E outcome \in {"ok"} \cup GenErrors, text \in GenTexts :
         LET sm == summarize_text(outcome, text) IN
           /\ summary' = sm
           /\ failed' = IF outcome # "ok" THEN "generation" ELSE failed
           /\ gen_timeouts' = gen_timeouts + (IF outcome = "Timeout" THEN GenAttempts ELSE 0)
           /\ result' = IF ~Truthy(sm) THEN MsgNoSummary ELSE sm
    /\ gen_calls' = gen_calls + GenAttempts
    /\ s_pc' = "done"
    /\ UNCHANGED <<url, video_id, transcript, fetch_calls, chunkVars, ragVars, monVars, evalVars>>

\* the caller has the result; the next request can start
SummReturn ==
    /\ s_pc = "done"
    /\ s_pc' = "idle"
    /\ UNCHANGED <<url, video_id, transcript, summary, result, fetch_calls,
                   gen_calls, gen_timeouts, failed, chunkVars, ragVars, monVars, evalVars>>

NextSummarizer ==
    \/ SummCall
    \/ ExtractVideoId
    \/ GetTranscript
    \/ SummarizeText
    \/ SummReturn

SpecSummarizer == InitSummarizer /\ [][NextSummarizer]_vars

---------------------------------------------------------------------------
(* Claims about the summarizer pipeline.                                   *)

Failure(kind) == [type |-> "failure", val |-> <<kind>>]

\* C1: when the generation capability times out on every call, the entry
\* point calls it exactly the configured number of attempts (3), then
\* returns GenerationFailed, never a partial or placeholder answer.
C1_RetriesThenGenerationFailed ==
    (s_pc = "done" /\ gen_calls > 0 /\ gen_timeouts = gen_calls)
        => (gen_calls = 3 /\ result = Failure("GenerationFailed"))

\* C2: after any failure of an upstream capability the entry point returns
\* an explicit failure value with a specific error kind, which is no string
\* and not None.
C2_TypedFailure ==
    (s_pc = "done" /\ failed # "none")
        => /\ result.type = "failure"
           /\ result.val \in { <<"TranscriptUnavailable">>, <<"EmbeddingFailed">>,
                               <<"GenerationFailed">> }

\* the id a URL carries: the v parameter of a watch URL, the path of a
\* short link; None for every other URL
ExpectedVideoId(u) ==
    LET vals == SelectSeq(u.query, LAMBDA x : x # "") IN
    IF u.hostname = "youtu.be" /\ Len(u.path) >= 2
    THEN PyStr(Tail(u.path))
    ELSE IF /\ u.hostname \in {"www.youtube.com", "youtube.com"}
            /\ u.path = <<"/", "watch">>
            /\ vals # <<>>
         THEN PyStr(<<Head(vals)>>)
         ELSE PyNone

\* C19: extract_video_id returns the video id of a watch URL and of a short
\* youtu.be link, and None (its documented way in the summarizer) for every
\* other URL, also for a watch URL without v and a short link with no path.
C19_ExtractVideoId ==
    s_pc \in {"transcript", "summarize", "done"} => video_id = ExpectedVideoId(url)

\* C20: whatever the generation calls do, one request makes at most the
\* attempt limit (3) of generation calls and ends with either the generated
\* answer or GenerationFailed.
C20_BoundedAttempts ==
    (s_pc = "done" /\ gen_calls > 0) =>
        /\ gen_calls <= 3
        /\ \/ result.type = "str" /\ result = summary
           \/ result = Failure("GenerationFailed")

\* the string the pipeline returns for the values of its three stages: the
\* message of the first stage that failed, the summary if none did
ExpectedResult(vid, tr, sm) ==
    IF ~Truthy(vid) THEN MsgInvalidUrl
    ELSE IF ~Truthy(tr) THEN MsgNoTranscript
    ELSE IF ~Truthy(sm) THEN MsgNoSummary
    ELSE sm

\* C26: the stages run in the order extract id, fetch transcript, generate:
\* the transcript capability is called only after a video id was extracted,
\* the generation capability only after a non-empty transcript was fetched,
\* each at most once in a request, and the pipeline always returns a string,
\* the summary or the message of the first stage that failed.
C26_StageOrder ==
    /\ fetch_calls <= 1
    /\ gen_calls <= 1
    /\ fetch_calls = 1 => Truthy(video_id)
    /\ gen_calls = 1 => (fetch_calls = 1 /\ Truthy(transcript))
    /\ s_pc = "done" =>
          /\ result.type = "str"
          /\ result = ExpectedResult(video_id, transcript, summary)

---------------------------------------------------------------------------
(* The RAG notebook: process_videos, the ingestion cell, ask_question.     *)

\* extract_video_id(url) of the RAG notebook: ValueError instead of None
rag_extract_video_id(u) ==
    IF u.hostname = "youtu.be"
    THEN PyStr(SubSeq(u.path, 2, Len(u.path)))
    ELSE IF u.hostname \in {"www.youtube.com", "youtube.com"} /\ u.path = <<"/", "watch">>
         THEN parse_qs_v(u.query)
         ELSE Raised("ValueError")

\* get_transcript(video_id) of the RAG notebook: "" on any exception
rag_get_transcript(outcome, text) ==
    IF outcome = "ok" THEN text ELSE <<>>

RagUrls ==
    { [hostname |-> "youtube.com", path |-> <<"/", "watch">>, query |-> <<"vid2">>],
      [hostname |-> "youtu.be",    path |-> <<"/", "vid1">>,  query |-> <<>>],
      [hostname |-> "youtu.be",    path |-> <<"/">>,          query |-> <<>>],
      [hostname |-> "example.com", path |-> <<"/", "vid1">>,  query |-> <<>>] }

RagTexts == { <<>>, <<"a">>, <<"b", "b", "b", "b">> }

\* what YouTubeTranscriptApi.get_transcript does for one video: it raises, or
\* returns segments whose joined text is one of RagTexts
Fetches == {[outcome |-> "error", text |-> <<>>]} \cup [outcome : {"ok"}, text : RagTexts]

\* process_videos(urls): the loop from URL i on; an exception of
\* extract_video_id leaves the loop and the function
RECURSIVE ProcessFrom(_, _, _, _)
ProcessFrom(urls, fetch, i, docs) ==
    IF i > Len(urls) THEN [raised |-> FALSE, docs |-> docs]
    ELSE LET v == rag_extract_video_id(urls[i]) IN
         IF v.type = "raise" THEN [raised |-> TRUE, docs |-> docs]
         ELSE LET t == rag_get_transcript(fetch[i].outcome, fetch[i].text) IN
              ProcessFrom(urls, fetch, i + 1,
                          IF t # <<>>
                          THEN Append(docs, [video_id |-> v.val, url |-> urls[i],
                                             content |-> t])
                          ELSE docs)

process_videos(urls, fetch) == ProcessFrom(urls, fetch, 1, <<>>)

InitRag ==
    /\ r_pc = "idle" /\ youtube_urls = <<>> /\ documents = <<>>
    /\ chunks = <<>> /\ metadatas = <<>> /\ vectorstore = <<>> /\ next_id = 1
    /\ budget = 1
    /\ source_documents = <<>> /\ context = <<>> /\ asked = 0
    /\ answer = PyNone
    /\ ChunkIdle /\ SummIdle /\ MonIdle /\ EvalIdle

\* documents = process_videos(youtube_urls)
ProcessVideos ==
    /\ r_pc = "idle"
    /\ \E n \in 0..MaxUrls : \E urls \in [1..n -> RagUrls] : \E fetch \in [1..n -> Fetches] :
         LET r == process_videos(urls, fetch) IN
           \* no video has the empty id: the transcript API raises for it
           /\ \A i \in 1..n : rag_extract_video_id(urls[i]).val = <<>>
                                   => fetch[i].outcome = "error"
           /\ youtube_urls' = urls
           /\ IF r.raised
              THEN documents' = documents /\ r_pc' = "idle"
              ELSE documents' = r.docs /\ r_pc' = "processed"
    /\ UNCHANGED <<chunks, metadatas, vectorstore, next_id, budget,
                   source_documents, context, asked, answer, chunkVars, summVars,
                   monVars, evalVars>>

\* the loop of the ingestion cell with 'chunk': i + 1
RECURSIVE ChunkDocsOneBased(_, _, _, _)
ChunkDocsOneBased(docs, i, cs, ms) ==
    IF i > Len(docs) THEN [chunks |-> cs, metadatas |-> ms]
    ELSE LET doc_chunks    == split_text(docs[i].content, RagChunkSize, RagChunkOverlap)
             doc_metadatas == [j \in 1..Len(doc_chunks) |->
                                 [video_id |-> docs[i].video_id, url |-> docs[i].url,
                                  chunk |-> j]]
         IN  ChunkDocsOneBased(docs, i + 1, cs \o doc_chunks, ms \o doc_metadatas)

\* the loop of the ingestion cell over the documents, from document i on
RECURSIVE ChunkDocs(_, _, _, _)
ChunkDocs(docs, i, cs, ms) ==
    IF i > Len(docs) THEN [chunks |-> cs, metadatas |-> ms]
    ELSE LET doc_chunks    == split_text(docs[i].content, RagChunkSize, RagChunkOverlap)
             doc_metadatas == [j \in 1..Len(doc_chunks) |->
                                 [video_id |-> docs[i].video_id, url |-> docs[i].url,
                                  chunk |-> j - 1]]
         IN  ChunkDocs(docs, i + 1, cs \o doc_chunks, ms \o doc_metadatas)

\* Chroma.from_texts(texts, embedding, metadatas, persist_directory): every
\* text is added to the collection of ./chroma_db under a fresh id
from_texts(store, first_id, texts, metas) ==
    store \o [j \in 1..Len(texts) |->
                [id |-> first_id + j - 1, text |-> texts[j], metadata |-> metas[j]]]

\* the ingestion cell; with no text at all the store may refuse the empty
\* batch (the cell raises and vectorstore is not bound)
IngestCell ==
    /\ r_pc \in {"processed", "indexed"}
    /\ Len(vectorstore) + Len(ChunkDocs(documents, 1, <<>>, <<>>).chunks)
          <= MaxEntries
    /\ LET r == ChunkDocs(documents, 1, <<>>, <<>>) IN
         /\ chunks' = r.chunks
         /\ metadatas' = r.metadatas
         /\ vectorstore' = from_texts(vectorstore, next_id, r.chunks, r.metadatas)
         /\ next_id' = next_id + Len(r.chunks)
         /\ r_pc' \in IF r.chunks = <<>>
                      THEN {"indexed", "ingest_failed"} ELSE {"indexed"}
    /\ UNCHANGED <<youtube_urls, documents, budget, source_documents, context,
                   asked, answer, chunkVars, summVars, monVars, evalVars>>

\* search_kwargs={"k": 3}
k == 3

Min(a, b) == IF a < b THEN a ELSE b

\* a retriever built without search_kwargs: the library's default of 4
RetrievalsDefaultK(store) ==
    LET n == Min(4, Len(store)) IN
    { [j \in 1..n |-> store[f[j]]] :
        f \in {g \in [1..n -> 1..Len(store)] :
                 \A a, b \in 1..n : a # b => g[a] # g[b]} }

\* what the retriever can return: min(k, size) distinct entries of the
\* store, in the order of the ranking the store computes
Retrievals(store) ==
    LET n == Min(k, Len(store)) IN
    { [j \in 1..n |-> store[f[j]]] :
        f \in {g \in [1..n -> 1..Len(store)] :
                 \A a, b \in 1..n : a # b => g[a] # g[b]} }

\* a chain that hands only the first retrieved document to the model
stuff_first(docs) == IF docs = <<>> THEN <<>> ELSE docs[1].text

\* chain_type="stuff": the texts of all retrieved documents, joined by a
\* blank line, are the context of the prompt
stuff(docs) == Join([j \in 1..Len(docs) |-> docs[j].text], <<NL, NL>>)

\* result['result']: what the model writes from the prompt
AnswerText == <<"answer">>

\* ask_question(question): result = qa_chain({"query": question}); with a
\* collection that has no entry the store either returns no document or
\* raises, and ask_question catches nothing
AskQuestion ==
    /\ r_pc = "indexed"
    /\ asked < MaxQuestions
    /\ \/ \E docs \in Retrievals(vectorstore) :
            /\ source_documents' = docs
            /\ context' = stuff(docs)
            /\ answer' = PyStr(AnswerText)
       \/ /\ vectorstore = <<>>
          /\ answer' = Raised("NotEnoughElementsException")
          /\ UNCHANGED <<source_documents, context>>
    \* the caller's budget: nothing in the chain reads it
    /\ budget' \in 1..MaxBudget
    /\ asked' = asked + 1
    /\ UNCHANGED <<r_pc, youtube_urls, documents, chunks, metadatas, vectorstore,
                   next_id, chunkVars, summVars, monVars, evalVars>>

NextRag ==
    \/ ProcessVideos
    \/ IngestCell
    \/ AskQuestion

SpecRag == InitRag /\ [][NextRag]_vars

---------------------------------------------------------------------------
(* Claims about the RAG notebook.                                          *)

\* C3: for every question, every retrieval result and every budget, the
\* context handed to generation has total size at most the configured
\* context budget.
C3_ContextWithinBudget ==
    asked > 0 => Len(context) <= budget

\* the text and metadata of the store's entries of video v, in store order
DocEntries(store, v) ==
    LET es == SelectSeq(store, LAMBDA e : e.metadata.video_id = v)
    IN  [j \in 1..Len(es) |-> [text |-> es[j].text, metadata |-> es[j].metadata]]

\* what one ingestion of document d puts into the store
OneIngestion(d) ==
    LET cs == split_text(d.content, RagChunkSize, RagChunkOverlap)
    IN  [j \in 1..Len(cs) |->
           [text |-> cs[j],
            metadata |-> [video_id |-> d.video_id, url |-> d.url, chunk |-> j - 1]]]

\* C8: ingesting the same document twice with the same configuration gives
\* the same chunk texts, sequence indexes and metadata, and the indexed
\* chunks of that document are the same as after one ingestion.
C8_IngestionIdempotent ==
    r_pc = "indexed" =>
        \A i \in 1..Len(documents) :
            (\A j \in 1..Len(documents) :
                documents[j].video_id = documents[i].video_id
                    => documents[j] = documents[i])
            => DocEntries(vectorstore, documents[i].video_id) = OneIngestion(documents[i])

\* C15: a document whose text is empty after trimming makes ingestion fail
\* with EmptyDocument; it is never silently skipped and never replaced by
\* empty output.  So when process_videos has returned, every URL has its
\* document and no document is empty.
C15_EmptyDocumentFails ==
    r_pc # "idle" =>
        /\ Len(documents) = Len(youtube_urls)
        /\ \A i \in 1..Len(documents) : Strip(documents[i].content) # <<>>

\* C16: a question on a collection to which no chunk was added fails with
\* IndexEmpty, also when the ingestion dropped every document; it gives no
\* empty result and no answer.
C16_IndexEmpty ==
    (asked > 0 /\ vectorstore = <<>>) => answer = Failure("IndexEmpty")

\* how often entry e of the store occurs in a retrieval result
Occurrences(docs, e) == Cardinality({j \in 1..Len(docs) : docs[j] = e})

C17_WitnessLarge ==
    /\ asked > 0 /\ answer.type = "str"
    /\ Len(vectorstore) > k /\ Len(source_documents) = k

\* ctx is the texts of docs, each whole and in the order of docs, with a
\* blank line between two texts and nothing else
RECURSIVE ChunksInOrder(_, _)
ChunksInOrder(ctx, docs) ==
    IF docs = <<>> THEN ctx = <<>>
    ELSE LET t == docs[1].text IN
         /\ Len(ctx) >= Len(t)
         /\ SubSeq(ctx, 1, Len(t)) = t
         /\ IF Len(docs) = 1
            THEN Len(ctx) = Len(t)
            ELSE /\ Len(ctx) >= Len(t) + 2
                 /\ SubSeq(ctx, Len(t) + 1, Len(t) + 2) = <<NL, NL>>
                 /\ ChunksInOrder(SubSeq(ctx, Len(t) + 3, Len(ctx)), Tail(docs))

\* C21: the context of an answered question is the concatenation of a
\* prefix of the retrieved chunks in rank order, each chunk whole, and the
\* cited chunks (result['source_documents']) are exactly the chunks of that
\* prefix.
C21_ContextIsPrefix ==
    (asked > 0 /\ answer.type = "str") =>
        \E n \in 0..Len(source_documents) :
            /\ ChunksInOrder(context, SubSeq(source_documents, 1, n))
            /\ n = Len(source_documents)

\* a question was answered with two or more retrieved chunks
C21_Witness ==
    /\ asked > 0 /\ answer.type = "str"
    /\ Len(source_documents) >= 2
    /\ source_documents[1].text # source_documents[2].text

\* C22: when at least one chunk is retrieved and every retrieved chunk alone
\* is larger than the context budget, the question does not fail: the
\* context is the top-ranked chunk cut to the budget and the model is asked.
C22_TopChunkTruncated ==
    (/\ asked > 0
     /\ source_documents # <<>>
     /\ \A j \in 1..Len(source_documents) : Len(source_documents[j].text) > budget)
        => /\ answer.type = "str"
           /\ context = SubSeq(source_documents[1].text, 1, budget)

\* C23: when the retrieval gives no result the question ends with
\* NoRelevantContext and the model is not asked.
C23_NoRelevantContext ==
    (asked > 0 /\ answer.type # "raise" /\ source_documents = <<>>)
        => answer = Failure("NoRelevantContext")

\* C24: after the ingestion cell the chunk list and the metadata list have
\* the same length, the metadata at position j names the document whose
\* split gave the chunk at position j, and within a document the chunk
\* index runs 0, 1, 2, ... in chunk order.
C24_ChunksAndMetadataAligned ==
    r_pc = "indexed" =>
        /\ Len(chunks) = Len(metadatas)
        /\ \A j \in 1..Len(metadatas) :
              \E i \in 1..Len(documents) :
                 LET cs == split_text(documents[i].content, RagChunkSize, RagChunkOverlap) IN
                 /\ documents[i].video_id = metadatas[j].video_id
                 /\ documents[i].url = metadatas[j].url
                 /\ metadatas[j].chunk + 1 \in 1..Len(cs)
                 /\ cs[metadatas[j].chunk + 1] = chunks[j]
        /\ \A j \in 1..Len(metadatas) :
              \/ metadatas[j].chunk = 0
              \/ /\ j > 1
                 /\ metadatas[j].chunk = metadatas[j - 1].chunk + 1
                 /\ metadatas[j].video_id = metadatas[j - 1].video_id
        /\ Len(metadatas) > 0 => metadatas[1].chunk = 0

\* two documents were ingested, one of them split into several chunks
C24_Witness ==
    /\ r_pc = "indexed"
    /\ Len(documents) = 2
    /\ Len(chunks) >= 3

---------------------------------------------------------------------------
(* The monitoring notebook: process_video(video_id, reference_summary)     *)
(* and the PerformanceMonitor it logs to.                                  *)

\* how many requests process_video handles
MaxRequests == 4

\* the latencies measure_latency can measure, in ms
Latencies == {100, 105, 500}

\* what psutil reports
ResourceReadings == { [cpu_percent |-> 1, memory_mb |-> 1] }

\* what the scorer computes for a summary and a reference
RougeReadings == { [rouge1_f1 |-> 1, rouge2_f1 |-> 1, rougeL_f1 |-> 1] }

\* an external call returns or raises
Outcomes == {"ok", "error"}

\* the tuple process_video returns
Returned(s, m) == [type |-> "tuple", val |-> <<s, m>>]

InitMonitor == MonIdle /\ ChunkIdle /\ SummIdle /\ RagIdle /\ EvalIdle

\* process_video(video_id, reference_summary) is called:
\* transcript = YouTubeTranscriptApi.get_transcript(video_id), outside any try
ProcessVideo ==
    /\ m_pc = "idle"
    /\ requests < MaxRequests
    /\ requests' = requests + 1
    /\ reference_summary' \in {PyNone, PyStr(<<"reference">>)}
    /\ m_summary' = PyNone /\ latency' = 0
    /\ resource_usage' = EmptyDict /\ rouge_scores' = EmptyDict
    /\ m_failed' = "none"
    /\ \E outcome \in Outcomes :
         IF outcome = "ok"
         THEN m_pc' = "summarize" /\ m_result' = PyNone
         ELSE m_pc' = "done" /\ m_result' = Raised("TranscriptsDisabled")
    /\ UNCHANGED <<metrics_history, mlflow_runs, drift_flags,
                   chunkVars, summVars, ragVars, evalVars>>

\* summary, latency = monitor.measure_latency(lambda: summarizer(text, ...)):
\* the time around the call; an exception of the call goes through
MeasureLatency ==
    /\ m_pc = "summarize"
    /\ \/ \E l \in Latencies :
            /\ m_summary' = PyStr(<<"summary">>)
            /\ latency' = l
            /\ m_pc' = "resources"
            /\ m_result' = m_result
       \/ /\ m_result' = Raised("SummarizerError")
          /\ m_pc' = "done"
          /\ UNCHANGED <<m_summary, latency>>
    /\ UNCHANGED <<reference_summary, resource_usage, rouge_scores, metrics_history,
                   mlflow_runs, m_failed, drift_flags, requests,
                   chunkVars, summVars, ragVars, evalVars>>

\* resource_usage = monitor.measure_resource_usage()
MeasureResourceUsage ==
    /\ m_pc = "resources"
    /\ \/ \E r \in ResourceReadings :
            /\ resource_usage' = r
            /\ m_pc' = "rouge"
            /\ UNCHANGED <<m_result, m_failed>>
       \/ /\ m_result' = Raised("psutil.Error")
          /\ m_failed' = "resources"
          /\ m_pc' = "done"
          /\ UNCHANGED resource_usage
    /\ UNCHANGED <<reference_summary, m_summary, latency, rouge_scores,
                   metrics_history, mlflow_runs, drift_flags, requests,
                   chunkVars, summVars, ragVars, evalVars>>

\* rouge_scores = monitor.calculate_rouge_scores(summary, reference_summary)
\*                if reference_summary else {}
CalculateRougeScores ==
    /\ m_pc = "rouge"
    /\ IF Truthy(reference_summary)
       THEN \/ \E r \in RougeReadings :
                 /\ rouge_scores' = r
                 /\ m_pc' = "log"
                 /\ UNCHANGED <<m_result, m_failed>>
            \/ /\ m_result' = Raised("ScorerError")
               /\ m_failed' = "rouge"
               /\ m_pc' = "done"
               /\ UNCHANGED rouge_scores
       ELSE /\ rouge_scores' = EmptyDict
            /\ m_pc' = "log"
            /\ UNCHANGED <<m_result, m_failed>>
    /\ UNCHANGED <<reference_summary, m_summary, latency, resource_usage,
                   metrics_history, mlflow_runs, drift_flags, requests,
                   chunkVars, summVars, ragVars, evalVars>>

\* a metrics dict built without **resource_usage
MetricsWithoutUsage(l, rouge, usage) == rouge @@ [latency |-> l]

\* the dict {'latency': latency, **rouge_scores, **resource_usage}
Metrics(l, rouge, usage) == usage @@ rouge @@ [latency |-> l]

\* log_metrics(metrics_dict): with mlflow.start_run(): mlflow.log_metrics(...)
log_metrics(runs, metrics_dict) == Append(runs, metrics_dict)

\* metrics = monitor.log_performance(latency, rouge_scores, resource_usage);
\* return summary, metrics.  log_performance appends to metrics_history, then
\* calls log_metrics; what MLflow raises goes through both functions
LogPerformance ==
    /\ m_pc = "log"
    /\ LET metrics == Metrics(latency, rouge_scores, resource_usage) IN
         /\ metrics_history' = Append(metrics_history, metrics)
         /\ \E outcome \in Outcomes :
              IF outcome = "ok"
              THEN /\ mlflow_runs' = log_metrics(mlflow_runs, metrics)
                   /\ m_result' = Returned(m_summary, metrics)
                   /\ m_failed' = m_failed
              ELSE /\ mlflow_runs' = mlflow_runs
                   /\ m_result' = Raised("MlflowException")
                   /\ m_failed' = "sink"
    /\ m_pc' = "done"
    /\ UNCHANGED <<reference_summary, m_summary, latency, resource_usage,
                   rouge_scores, drift_flags, requests,
                   chunkVars, summVars, ragVars, evalVars>>

\* the caller has the result; the next request can start
MonReturn ==
    /\ m_pc = "done"
    /\ m_pc' = "idle"
    /\ UNCHANGED <<reference_summary, m_summary, latency, resource_usage,
                   rouge_scores, metrics_history, mlflow_runs, m_result, m_failed,
                   drift_flags, requests, chunkVars, summVars, ragVars, evalVars>>

NextMonitor ==
    \/ ProcessVideo
    \/ MeasureLatency
    \/ MeasureResourceUsage
    \/ CalculateRougeScores
    \/ LogPerformance
    \/ MonReturn

SpecMonitor == InitMonitor /\ [][NextMonitor]_vars

---------------------------------------------------------------------------
(* Claims about the monitoring notebook.                                   *)

\* size of the baseline window and of the recent window, in records
WindowSize == 2
\* the configured threshold on the distance of the window means, in ms
DriftThreshold == 50

RECURSIVE SumLatency(_)
SumLatency(records) ==
    IF records = <<>> THEN 0
    ELSE Head(records).latency + SumLatency(Tail(records))

\* the latest WindowSize records, and the WindowSize records before them
RecentWindow ==
    SubSeq(metrics_history, Len(metrics_history) - WindowSize + 1, Len(metrics_history))
BaselineWindow ==
    SubSeq(metrics_history, Len(metrics_history) - 2 * WindowSize + 1,
           Len(metrics_history) - WindowSize)

Abs(x) == IF x < 0 THEN 0 - x ELSE x

\* C12: after a baseline window of latencies with mean 100 ms, a recent
\* window with mean 500 ms raises the drift flag of "latency" and a recent
\* window with mean 105 ms does not; the flag is raised exactly when the
\* distance between the two windows exceeds the configured threshold.
C12_DriftFlag ==
    (m_pc = "done" /\ Len(metrics_history) >= 2 * WindowSize) =>
        LET b == SumLatency(BaselineWindow)
            r == SumLatency(RecentWindow)
        IN  /\ (b = 100 * WindowSize /\ r = 500 * WindowSize)
                  => "latency" \in drift_flags
            /\ (b = 100 * WindowSize /\ r = 105 * WindowSize)
                  => "latency" \notin drift_flags
            /\ ("latency" \in drift_flags)
                  <=> (Abs(r - b) > DriftThreshold * WindowSize)

\* C13: a failure inside the monitoring (resource measurement, quality
\* scoring, recording the metrics, the metrics sink) never interrupts the
\* request: process_video still returns the summary the summarizer produced.
C13_MonitorNeverInterrupts ==
    (m_pc = "done" /\ m_failed # "none")
        => (m_result.type = "tuple" /\ m_result.val[1] = m_summary)

RougeKeys == {"rouge1_f1", "rouge2_f1", "rougeL_f1"}
UsageKeys == {"cpu_percent", "memory_mb"}

IsPrefix(a, b) == Len(a) <= Len(b) /\ SubSeq(b, 1, Len(a)) = a

\* C25: the record stream of the monitor (metrics_history) is append-only.
\* No step changes or removes a record; a record is appended only by the
\* step that ends a request, and the step that ends a request with its
\* result appends exactly one record, with the latency and the resource
\* usage, and with the quality scores exactly if a reference was given;
\* every record the sink (MLflow) received is in the stream.
C25_StreamAppendOnly ==
    [][ /\ IsPrefix(metrics_history, metrics_history')
        /\ Len(metrics_history') <= Len(metrics_history) + 1
        /\ metrics_history' # metrics_history => (m_pc # "done" /\ m_pc' = "done")
        /\ (m_pc # "done" /\ m_pc' = "done" /\ m_result'.type = "tuple") =>
              /\ Len(metrics_history') = Len(metrics_history) + 1
              /\ LET r == metrics_history'[Len(metrics_history')] IN
                   /\ r = m_result'.val[2]
                   /\ "latency" \in DOMAIN r
                   /\ r.latency = latency
                   /\ UsageKeys \subseteq DOMAIN r
                   /\ IF Truthy(reference_summary)
                      THEN RougeKeys \subseteq DOMAIN r
                      ELSE RougeKeys \cap DOMAIN r = {}
        /\ \A i \in 1..Len(mlflow_runs') :
              \E j \in 1..Len(metrics_history') :
                 metrics_history'[j] = mlflow_runs'[i] ]_vars

\* the stream holds a record with quality scores and one without, and the
\* sink missed a record
C25_Witness ==
    /\ \E i, j \in 1..Len(metrics_history) :
          /\ RougeKeys \subseteq DOMAIN metrics_history[i]
          /\ RougeKeys \cap DOMAIN metrics_history[j] = {}
    /\ Len(mlflow_runs) >= 1
    /\ Len(mlflow_runs) < Len(metrics_history)

---------------------------------------------------------------------------
(* The RAG evaluation notebook: evaluate_rag_system(qa_samples).           *)

\* longest list of samples given to evaluate_rag_system
MaxSamples == 3

\* a key the sample dict does not have
Missing == [type |-> "missing", val |-> <<>>]

\* the questions of the samples; the RAG system does not answer "qx" (the
\* call of qa_chain raises)
Questions == {"q1", "q2", "qx"}

Samples ==
    [question : Questions, expected_answer : {PyStr(<<"expected">>)},
     context : {Missing, PyStr(<<"gold">>)}]

\* time.time() - start_time around qa_chain for a question
ResponseTime(q) == IF q = "q1" THEN 2 ELSE 1

\* result['result'] of qa_chain for a question
Prediction(q) == <<"answer to", q>>

\* [doc.page_content for doc in result['source_documents']] for a question
RetrievedContexts(q) == <<"contexts for", q>>

\* the score the scorers (ROUGE, BERTScore, RAGAS) give to what the chain
\* returned for a question
Quality(returned) == IF returned[2] \in {"q1", "v1"} THEN 1 ELSE 2

calculate_rouge_scores(prediction, reference) ==
    [rouge1_f1 |-> Quality(prediction), rouge2_f1 |-> Quality(prediction),
     rougeL_f1 |-> Quality(prediction)]

calculate_bert_scores(prediction, reference) ==
    [bert_precision |-> Quality(prediction), bert_recall |-> Quality(prediction),
     bert_f1 |-> Quality(prediction)]

evaluate_retrieval(retrieved_contexts, relevant_context) ==
    [context_relevancy |-> Quality(retrieved_contexts)]

evaluate_generation(prediction, reference, ctx) ==
    [faithfulness |-> Quality(prediction), answer_relevancy |-> Quality(prediction)]

\* the body of the loop for sample number i: the metrics dict, or what the
\* body raises (nothing in evaluate_rag_system catches it)
\* a loop body that catches what a sample raises and scores it 0
sample_metrics_guarded(i, sample) ==
    [type |-> "dict",
     val  |-> [sample_id |-> i, response_time |-> 0, rouge1_f1 |-> 0, rouge2_f1 |-> 0,
               rougeL_f1 |-> 0, bert_precision |-> 0, bert_recall |-> 0, bert_f1 |-> 0,
               context_relevancy |-> 0, faithfulness |-> 0, answer_relevancy |-> 0]]

sample_metrics(i, sample) ==
    IF sample.question = "qx" THEN Raised("OpenAIError")
    \* sample['context'], read for evaluate_retrieval
    ELSE IF sample.context = Missing THEN Raised("KeyError")
    ELSE LET prediction == Prediction(sample.question) IN
         [type |-> "dict",
          val  |-> evaluate_generation(prediction, sample.expected_answer, sample.context)
                   @@ evaluate_retrieval(RetrievedContexts(sample.question), sample.context)
                   @@ calculate_bert_scores(prediction, sample.expected_answer)
                   @@ calculate_rouge_scores(prediction, sample.expected_answer)
                   @@ [sample_id |-> i, response_time |-> ResponseTime(sample.question)]]

\* the keys of a metrics dict in the order the dict was built
MetricNames ==
    << "sample_id", "response_time", "rouge1_f1", "rouge2_f1", "rougeL_f1",
       "bert_precision", "bert_recall", "bert_f1", "context_relevancy",
       "faithfulness", "answer_relevancy" >>

\* for metric_name, value in metrics.items():
\*     if metric_name != 'sample_id': mlflow.log_metric(f"{metric_name}_{i}", value)
LogSample(i, metrics) ==
    LET names == SelectSeq(MetricNames, LAMBDA n : n # "sample_id")
    IN  [j \in 1..Len(names) |->
           [name |-> <<names[j], i>>, value |-> metrics[names[j]]]]

RECURSIVE Sum(_)
Sum(xs) == IF xs = <<>> THEN 0 ELSE Head(xs) + Sum(Tail(xs))

\* a mean that depends on the order: the running average (avg + x) / 2
RECURSIVE WeightedSum(_)
WeightedSum(xs) ==
    IF xs = <<>> THEN 0 ELSE 2 * WeightedSum(SubSeq(xs, 1, Len(xs) - 1)) + xs[Len(xs)]

RECURSIVE Pow2(_)
Pow2(n) == IF n = 0 THEN 1 ELSE 2 * Pow2(n - 1)

running_mean(xs) == [sum |-> WeightedSum(xs), count |-> Pow2(Len(xs))]

\* the mean of a column: the sum of its values over their number, kept as
\* the exact fraction
mean(xs) == [sum |-> Sum(xs), count |-> Len(xs)]

\* metrics_df.mean(numeric_only=True): the mean of every column of the
\* frame; an empty frame has no column
dataframe_mean(rows) ==
    IF rows = <<>> THEN EmptyDict
    ELSE [n \in {MetricNames[j] : j \in 1..Len(MetricNames)} |->
            mean([r \in 1..Len(rows) |-> rows[r][n]])]

\* for metric_name, value in avg_metrics.items():
\*     if metric_name != 'sample_id': mlflow.log_metric(f"avg_{metric_name}", value)
LogAverages(avg) ==
    LET names == SelectSeq(MetricNames,
                           LAMBDA n : n # "sample_id" /\ n \in DOMAIN avg)
    IN  [j \in 1..Len(names) |->
           [name |-> <<"avg", names[j]>>, value |-> avg[names[j]]]]

\* the videos of the test data of the summarizer evaluation; the model
\* raises for "vx"
VideoUrls == {"v1", "v2", "vx"}

Examples ==
    [video_url : VideoUrls, reference_summary : {Missing, PyStr(<<"reference">>)}]

\* predicted_summary = model(example['video_url'])
PredictedSummary(u) == <<"summary of", u>>

\* calculate_metrics(predicted_summary, reference_summary) of the summarizer
\* evaluation
calculate_metrics(predicted_summary, reference) ==
    [rouge1_precision |-> Quality(predicted_summary),
     rouge1_recall |-> Quality(predicted_summary),
     rouge1_f1 |-> Quality(predicted_summary),
     rouge2_f1 |-> Quality(predicted_summary),
     rougeL_f1 |-> Quality(predicted_summary),
     bleu_score |-> Quality(predicted_summary),
     summary_length_ratio |-> Quality(predicted_summary),
     predicted_length |-> Len(predicted_summary),
     reference_length |-> Len(reference.val)]

\* the body of the loop of evaluate_model_with_mlflow up to the metrics
\* dict, or what it raises
example_metrics(example) ==
    IF example.video_url = "vx" THEN Raised("ModelError")
    \* example['reference_summary']
    ELSE IF example.reference_summary = Missing THEN Raised("KeyError")
    ELSE [type |-> "dict",
          val  |-> calculate_metrics(PredictedSummary(example.video_url),
                                     example.reference_summary)]

ExampleMetricNames ==
    << "rouge1_precision", "rouge1_recall", "rouge1_f1", "rouge2_f1", "rougeL_f1",
       "bleu_score", "summary_length_ratio", "predicted_length", "reference_length" >>

\* for metric_name, value in metrics.items():
\*     mlflow.log_metric(f"example_{i}_{metric_name}", value)
LogExample(i, metrics) ==
    [j \in 1..Len(ExampleMetricNames) |->
       [name |-> <<"example", i, ExampleMetricNames[j]>>,
        value |-> metrics[ExampleMetricNames[j]]]]

\* the two summaries of example i written under example_{i}/ and sent with
\* mlflow.log_artifacts(example_dir)
LogExampleArtifacts(i, example) ==
    << [name |-> <<"example", i, "artifacts">>,
        value |-> <<PredictedSummary(example.video_url), example.reference_summary.val>>] >>

\* avg_metrics of evaluate_model_with_mlflow: for every key of the first
\* dict, np.mean of that key over all dicts, under the key f"avg_{metric}"
np_avg_metrics(rows) ==
    [key \in {<<"avg", n>> : n \in DOMAIN rows[1]} |->
        mean([r \in 1..Len(rows) |-> rows[r][key[2]]])]

\* mlflow.log_metric(f"avg_{metric}", avg_value) for every key
LogExampleAverages(avg) ==
    [j \in 1..Len(ExampleMetricNames) |->
       [name |-> <<"avg", ExampleMetricNames[j]>>,
        value |-> avg[<<"avg", ExampleMetricNames[j]>>]]]

InitEval ==
    /\ e_pc = "ready"
    /\ harness \in {"rag", "summarizer"}
    /\ \E n \in 0..MaxSamples :
          qa_samples \in [1..n -> IF harness = "rag" THEN Samples ELSE Examples]
    /\ e_i = 0 /\ all_metrics = <<>> /\ logged = <<>> /\ avg_metrics = EmptyDict
    /\ report = PyNone /\ e_result = PyNone
    /\ ChunkIdle /\ SummIdle /\ RagIdle /\ MonIdle

\* evaluate_rag_system(qa_samples) is called: mlflow.start_run(...), all_metrics = []
StartRun ==
    /\ e_pc = "ready"
    /\ e_pc' = "loop"
    /\ all_metrics' = <<>>
    /\ e_i' = 0
    /\ UNCHANGED <<harness, qa_samples, logged, avg_metrics, report, e_result,
                   chunkVars, summVars, ragVars, monVars>>

\* one pass of: for i, sample in enumerate(qa_samples)
EvalSample ==
    /\ harness = "rag"
    /\ e_pc = "loop"
    /\ e_i < Len(qa_samples)
    /\ LET m == sample_metrics(e_i, qa_samples[e_i + 1]) IN
         IF m.type = "raise"
         THEN /\ e_result' = m
              /\ e_pc' = "done"
              /\ UNCHANGED <<e_i, all_metrics, logged>>
         ELSE /\ logged' = logged \o LogSample(e_i, m.val)
              /\ all_metrics' = Append(all_metrics, m.val)
              /\ e_i' = e_i + 1
              /\ UNCHANGED <<e_pc, e_result>>
    /\ UNCHANGED <<harness, qa_samples, avg_metrics, report,
                   chunkVars, summVars, ragVars, monVars>>

\* one pass of: for i, example in enumerate(test_data)
EvalExample ==
    /\ harness = "summarizer"
    /\ e_pc = "loop"
    /\ e_i < Len(qa_samples)
    /\ LET m == example_metrics(qa_samples[e_i + 1]) IN
         IF m.type = "raise"
         THEN /\ e_result' = m
              /\ e_pc' = "done"
              /\ UNCHANGED <<e_i, all_metrics, logged>>
         ELSE /\ all_metrics' = Append(all_metrics, m.val)
              /\ logged' = logged \o LogExample(e_i, m.val)
                                   \o LogExampleArtifacts(e_i, qa_samples[e_i + 1])
              /\ e_i' = e_i + 1
              /\ UNCHANGED <<e_pc, e_result>>
    /\ UNCHANGED <<harness, qa_samples, avg_metrics, report,
                   chunkVars, summVars, ragVars, monVars>>

\* after the loop of evaluate_model_with_mlflow: the averages over the keys
\* of all_metrics[0] (IndexError for an empty list), the plots,
\* return run.info.run_id, avg_metrics
AggregateExamples ==
    /\ harness = "summarizer"
    /\ e_pc = "loop"
    /\ e_i = Len(qa_samples)
    /\ IF all_metrics = <<>>
       THEN /\ e_result' = Raised("IndexError")
            /\ UNCHANGED <<avg_metrics, logged, report>>
       ELSE /\ avg_metrics' = np_avg_metrics(all_metrics)
            /\ logged' = logged \o LogExampleAverages(np_avg_metrics(all_metrics))
            /\ report' = [type |-> "plots", val |-> all_metrics]
            /\ e_result' = [type |-> "tuple", val |-> <<"run_id", np_avg_metrics(all_metrics)>>]
    /\ e_pc' = "done"
    /\ UNCHANGED <<harness, qa_samples, e_i, all_metrics,
                   chunkVars, summVars, ragVars, monVars>>

\* after the loop: the averages, evaluation_results.csv, return metrics_df
Aggregate ==
    /\ harness = "rag"
    /\ e_pc = "loop"
    /\ e_i = Len(qa_samples)
    /\ avg_metrics' = dataframe_mean(all_metrics)
    /\ logged' = logged \o LogAverages(dataframe_mean(all_metrics))
    /\ report' = [type |-> "csv", val |-> all_metrics]
    /\ e_result' = [type |-> "dataframe", val |-> all_metrics]
    /\ e_pc' = "done"
    /\ UNCHANGED <<harness, qa_samples, e_i, all_metrics,
                   chunkVars, summVars, ragVars, monVars>>

NextEval ==
    \/ StartRun
    \/ EvalSample
    \/ Aggregate
    \/ EvalExample
    \/ AggregateExamples

SpecEval == InitEval /\ [][NextEval]_vars

---------------------------------------------------------------------------
(* Claims about the evaluation notebook.                                   *)

\* C14: a sample without gold context has its context-relevancy and
\* faithfulness metrics skipped while its other metrics are computed, and
\* the run completes for all samples and produces the report.
C14_MissingContextSkipped ==
    (harness = "rag" /\ e_pc = "done") =>
        /\ e_result.type = "dataframe"
        /\ report # PyNone
        /\ Len(all_metrics) = Len(qa_samples)
        /\ \A i \in 1..Len(qa_samples) :
              qa_samples[i].context = Missing =>
                  /\ {"context_relevancy", "faithfulness"} \cap DOMAIN all_metrics[i] = {}
                  /\ {"rouge1_f1", "bert_f1", "answer_relevancy"} \subseteq DOMAIN all_metrics[i]

\* the per-sample table of a whole run over a list of samples that all
\* evaluate
RunRows(samples) ==
    [i \in 1..Len(samples) |->
        IF harness = "rag" THEN sample_metrics(i - 1, samples[i]).val
        ELSE example_metrics(samples[i]).val]

\* the run-level aggregate of a whole run over such a list
RunAggregate(samples) ==
    IF harness = "rag" THEN dataframe_mean(RunRows(samples))
    ELSE np_avg_metrics(RunRows(samples))

\* a metrics dict without the row number
WithoutId(metrics) == [n \in (DOMAIN metrics) \ {"sample_id"} |-> metrics[n]]

Perms(n) == {f \in [1..n -> 1..n] : \A a, b \in 1..n : a # b => f[a] # f[b]}

Fails(sample) ==
    IF harness = "rag"
    THEN sample.question = "qx" \/ sample.context = Missing
    ELSE sample.video_url = "vx" \/ sample.reference_summary = Missing

FirstFailing ==
    CHOOSE i \in 1..Len(qa_samples) :
        Fails(qa_samples[i]) /\ \A j \in 1..(i - 1) : ~Fails(qa_samples[j])

\* the name under which the first metric of the sample at 0-based position
\* i reaches the metrics sink
SampleMetricName(i) ==
    IF harness = "rag" THEN <<"rouge1_f1", i>> ELSE <<"example", i, "rouge1_f1">>

===========================================================================
